---- MODULE Spec2Model ----
(***************************************************************************)
(* PrivateVolume (model/PrivateVolume.cpp): the lifecycle of one private   *)
(* encrypted volume.  The volume's fields, the device-node and block-      *)
(* mapping namespaces it acts on, and the position of the running          *)
(* lifecycle operation are the state; every call to a collaborator is one  *)
(* step whose outcome is chosen nondeterministically.                      *)
(***************************************************************************)
EXTENDS Integers, Sequences, FiniteSets, TLC

VARIABLES
    nodeExists,     \* the raw device node at mRawDevPath exists
    mappingExists,  \* a dm device named getId() exists
    mounted,        \* a filesystem is mounted at mPath
    mDmDevPath,     \* PrivateVolume::mDmDevPath
    mFsType,        \* PrivateVolume::mFsType
    mFsUuid,        \* PrivateVolume::mFsUuid
    mPath,          \* PrivateVolume::mPath
    phase,          \* lifecycle phase kept by the caller of the hooks
    op,             \* the lifecycle hook running, or the last one that ran
    pc,             \* position inside the hook; "idle" between hooks
    result,         \* status_t returned by the last hook
    failStep,       \* the step that made the last hook fail, "" otherwise
    tries,          \* local 'tries' of the busy-retry loops
    ret,            \* local 'ret' of the busy-retry loops
    err,            \* errno left by the last dm delete call
    retries,        \* local 'retries' of the open poll
    deleteCalls,    \* dm delete calls made by the running hook
    busyFails,      \* of these, the ones that failed with EBUSY
    firstNonBusy,   \* index of the first delete call failing with another errno
    setupCalls,     \* setup_ext_volume calls made by the running hook
    openCalls,      \* open(mDmDevPath) calls made by the running hook
    nodeRemoveCalls,\* DestroyDeviceNode calls made by the running hook
    checkCalls,     \* ext4::Check / f2fs::Check calls made by the running hook
    checkCode,      \* the value the check returned
    mountCalls,     \* ext4::Mount / f2fs::Mount calls made by the running hook
    dirsPrepared,   \* subdirectories PrepareDir was called on by the running hook
    notified,       \* onVolumeMetadataChanged calls made by the running hook
    prevOp,         \* the hook that ran before the current one
    prevFail,       \* the failStep of that hook
    nodeAtStart,    \* nodeExists when the running hook started
    dirsOk,         \* of dirsPrepared, the PrepareDir calls that returned 0
    mountPointCalls,\* PrepareDir(mPath) calls made by the running hook
    readRes,        \* what ReadMetadata returned to readMetadata()
    metaRes,        \* what readMetadata() returned to doMount
    hadListener,    \* getListener() was non-null in readMetadata()
    notifyArgs,     \* arguments of the last onVolumeMetadataChanged call
    rawMajor,       \* major(mRawDevice)
    f2fsAvail,      \* what f2fs::IsSupported() tells during the running hook
    devWritten,     \* the running hook had a driver write to the mapped device
    reqFsType,      \* doFormat's argument fsType
    resolvedFsType, \* doFormat's local resolvedFsType
    formatCalls,    \* ext4::Format / f2fs::Format calls made by the running hook
    formatDriver,   \* the driver whose Format was called
    startedUsers,   \* what getStartedUsers() returned to doPostMount
    pending,        \* users the loop of doPostMount has not reached yet
    children        \* the volumes added with addVolume, in order

env    == <<nodeExists, mappingExists, mounted>>
fields == <<mDmDevPath, mFsType, mFsUuid, mPath>>
loopv  == <<tries, ret, err, retries>>
dmcnt  == <<deleteCalls, busyFails, firstNonBusy>>
crcnt  == <<setupCalls, openCalls, nodeRemoveCalls>>
mtcnt  == <<checkCalls, checkCode, mountCalls, dirsPrepared, notified>>
hist   == <<prevOp, prevFail, nodeAtStart>>
mdv    == <<dirsOk, mountPointCalls, readRes, metaRes, hadListener, notifyArgs>>
dev    == <<rawMajor>>
fmt    == <<reqFsType, resolvedFsType, formatCalls, formatDriver, f2fsAvail,
            devWritten>>
pmv    == <<startedUsers, pending>>
xtra   == <<dev, fmt, pmv, children>>
vars   == <<env, fields, phase, op, pc, result, failStep, loopv, dmcnt, crcnt,
            mtcnt, hist, mdv, xtra>>

\* ---------------------------------------------------------------- values

\* Largest value a filesystem check is taken to return; -1 is its error value.
MaxCheckCode == 4
CheckCodes == -1 .. MaxCheckCode

FsTypes == {"ext4", "f2fs", "vfat"}

\* the arguments doFormat is called with
FormatRequests == {"auto", "ext4", "f2fs", "zzz"}

\* Largest user id a started user is taken to have.
MaxUser == 1
Users == 0 .. MaxUser

\* static const unsigned int kMajorBlockLoop = 7; kMajorBlockMmc = 179;
kMajorBlockLoop == 7
kMajorBlockMmc == 179
\* the majors of raw devices: loop, mmc, one of the virtio-blk class (253) and
\* one of no class doFormat looks for (8, scsi disk)
Majors == {kMajorBlockLoop, kMajorBlockMmc, 253, 8}
\* IsVirtioBlkDevice(major)
IsVirtioBlkDevice(maj) == maj = 253

\* status_t values: OK, -EIO, -EINVAL, and -errno of a failed unlink.
OK == "OK"
EIO == "EIO"
EINVAL == "EINVAL"
EUNLINK == "EUNLINK"

EBUSY == "EBUSY"
\* any errno other than EBUSY
EOTHER == "EOTHER"

DmDevPath == "/dev/block/dm-0"
\* the uuids a metadata read may yield; "" when it found none
FsUuids == {"", "57f8f4bc"}

\* int tries = 10
CreateTries == 10
DestroyTries == 10
\* #define RETRY_MOUNT_ATTEMPTS 10
RETRY_MOUNT_ATTEMPTS == 10

\* the nine fixed subdirectories, in the order doMount prepares them
SubDirs == <<"app", "user", "user_de", "misc_ce", "misc_de", "media",
             "media/0", "local", "local/tmp">>

\* ------------------------------------------- faulty variants of decisions
\* Each is one of the decisions below as a slip in the code would have it.

\* the status of CreateDeviceNode is not looked at
CreateNodeFailed_Ignored(rc) == FALSE
\* while (--tries > 0)
CreateLoopTest_OffByOne(t) == t > 1
\* if (ret) break;  -- every failure is retried
CreateLoopBreak_AnyFailure(r, e) == r
\* the loop's result is not looked at
DestroyLoopFailed_Ignored(r) == FALSE
\* DestroyDeviceNode(mRawDevPath); return OK;
DestroyStatus_AlwaysOk(rc) == OK
\* the path is handed to setPath() only, mPath is not assigned
MountPathFor_NotKept(uuid) == ""
\* if (res == 0)
Ext4CheckPassed_CleanOnly(res) == res = 0
\* if (res == 0 || res == 1)
F2fsCheckPassed_AsExt4(res) == res = 0 \/ res = 1

\* the result of setup_ext_volume is not looked at
SetupFailed_Ignored(ok) == FALSE
\* if (rmdir(mPath)) return -EIO;
UnmountStatus_RmdirFatal(rc) == IF rc = 0 THEN OK ELSE EIO
\* if (retries > 1)
OpenRetry_OffByOne(n) == n > 1
\* while (tries-- >= 0)
DestroyLoopTest_OneMore(t) == t >= 0
\* the loop's result is not looked at
CreateLoopFailed_Ignored(r) == FALSE

\* if (listener && !res) listener->onVolumeMetadataChanged(...)
Notifies_OnSuccessOnly(listener, res) == listener /\ res = 0
\* the status of PrepareDir is not looked at
PrepareFailed_Ignored(rc) == FALSE

\* the loop device class is left out of the test
PrefersF2fs_NoLoop(maj) == maj = kMajorBlockMmc \/ IsVirtioBlkDevice(maj)
\* return -EIO for an unsupported type, as everywhere else
UnsupportedStatus_Eio == EIO
\* the primary user is left out
UsersToStack_SkipPrimary(S) == S \ {0}

\* ------------------------------------------------------- code's decisions

\* if (CreateDeviceNode(mRawDevPath, mRawDevice)) return -EIO;
CreateNodeFailed(rc) == rc # 0

\* while (tries-- > 0)
CreateLoopTest(t) == t > 0
DestroyLoopTest(t) == t > 0

\* if (ret || errno != EBUSY) break;
CreateLoopBreak(r, e) == r \/ e # EBUSY
DestroyLoopBreak(r, e) == r \/ e # EBUSY

\* if (!ret) return -EIO;
CreateLoopFailed(r) == ~r
DestroyLoopFailed(r) == ~r

\* mPath = StringPrintf("/mnt/expand/%s", mFsUuid.c_str());
MountPathFor(uuid) == "/mnt/expand/" \o uuid

\* if (!setup_ext_volume(...)) return -EIO;
SetupFailed(ok) == ~ok

\* return DestroyDeviceNode(mRawDevPath);
DestroyStatus(rc) == IF rc = 0 THEN OK ELSE EUNLINK

\* rmdir failed: PLOG(ERROR); return OK;
UnmountStatus(rc) == OK

\* if (listener) listener->onVolumeMetadataChanged(...)
Notifies(listener, res) == listener

\* status_t res = ReadMetadata(...); ...; return res;
ReadMetadataResult(res) == res

\* getId(): "private:major,minor"
Identity == <<"private", rawMajor>>

\* PrepareDir(...) || PrepareDir(...) || ...
PrepareFailed(rc) == rc # 0

\* major(mRawDevice) == kMajorBlockMmc || major(mRawDevice) == kMajorBlockLoop
\*     || IsVirtioBlkDevice(major(mRawDevice))
PrefersF2fs(maj) ==
    maj = kMajorBlockMmc \/ maj = kMajorBlockLoop \/ IsVirtioBlkDevice(maj)

\* std::string resolvedFsType = fsType; if (fsType == "auto") { ... }
Resolve(req, maj, avail) ==
    IF req = "auto"
    THEN IF PrefersF2fs(maj) /\ avail THEN "f2fs" ELSE "ext4"
    ELSE req

\* if (ext4::Format(...)) return -EIO;  if (f2fs::Format(...)) return -EIO;
FormatStatus(rc) == IF rc # 0 THEN EIO ELSE OK

\* else { ... return -EINVAL; }
UnsupportedStatus == EINVAL

\* for (userid_t user : vol_manager->getStartedUsers())
UsersToStack(S) == S

\* std::string mediaPath(mPath + "/media");
MediaPath(path) == path \o "/media"

\* if (retries > 0) { retries--; ... sleep } else { ... return -EIO; }
OpenRetry(n) == n > 0

\* if (res == 0 || res == 1)
Ext4CheckPassed(res) == res = 0 \/ res = 1
\* if (res == 0)
F2fsCheckPassed(res) == res = 0

CheckPassed(t, res) ==
    IF t = "ext4" THEN Ext4CheckPassed(res) ELSE F2fsCheckPassed(res)

\* mFsType == "ext4" / mFsType == "f2fs" / else unsupported
Supported(t) == t = "ext4" \/ t = "f2fs"

\* ----------------------------------------------------------------- state

Init ==
    /\ nodeExists \in BOOLEAN       \* a crashed earlier instance may have
    /\ mappingExists \in BOOLEAN    \* left its node and its mapping behind
    /\ mounted = FALSE
    /\ mDmDevPath = ""
    /\ mFsType = ""
    /\ mFsUuid = ""
    /\ mPath = ""
    /\ phase = "new"
    /\ op = "none"
    /\ pc = "idle"
    /\ result = "none"
    /\ failStep = ""
    /\ tries = 0
    /\ ret = FALSE
    /\ err = ""
    /\ retries = 0
    /\ deleteCalls = 0
    /\ busyFails = 0
    /\ firstNonBusy = 0
    /\ setupCalls = 0
    /\ openCalls = 0
    /\ nodeRemoveCalls = 0
    /\ checkCalls = 0
    /\ checkCode = 0
    /\ mountCalls = 0
    /\ dirsPrepared = 0
    /\ notified = 0
    /\ prevOp = "none"
    /\ prevFail = ""
    /\ nodeAtStart = FALSE
    /\ dirsOk = 0
    /\ mountPointCalls = 0
    /\ readRes = 0
    /\ metaRes = 0
    /\ hadListener = FALSE
    /\ notifyArgs = <<>>
    /\ rawMajor \in Majors
    /\ f2fsAvail = FALSE
    /\ devWritten = FALSE
    /\ reqFsType = ""
    /\ resolvedFsType = ""
    /\ formatCalls = 0
    /\ formatDriver = ""
    /\ startedUsers = {}
    /\ pending = {}
    /\ children = <<>>

\* The caller drives create -> [format | mount -> [postMount] -> unmount]*
\* -> destroy, and may start over after destroy; it unmounts before it
\* destroys or formats, and it destroys the child volumes before doUnmount.
MayCreate == phase = "new"
MayDestroy == phase = "created"
MayMount == phase = "created"
MayUnmount == phase \in {"mounted", "stacked"}
MayFormat == phase = "created"
MayPostMount == phase = "mounted"

\* The caller's view after a hook returned.
PhaseAfter(o, r) ==
    CASE o = "create"  -> "created"
      [] o = "destroy" -> "new"
      [] o = "mount"   -> IF r = OK THEN "mounted" ELSE "created"
      [] o = "unmount" -> "created"
      [] o = "postMount" -> "stacked"
      [] OTHER         -> phase

\* A hook is entered: its locals and call counts start afresh.
Begin(o, first) ==
    /\ pc = "idle"
    /\ op' = o
    /\ pc' = first
    /\ result' = "none"
    /\ failStep' = ""
    /\ prevOp' = op
    /\ prevFail' = failStep
    /\ nodeAtStart' = nodeExists
    /\ tries' = 0
    /\ ret' = FALSE
    /\ err' = ""
    /\ retries' = 0
    /\ deleteCalls' = 0
    /\ busyFails' = 0
    /\ firstNonBusy' = 0
    /\ setupCalls' = 0
    /\ openCalls' = 0
    /\ nodeRemoveCalls' = 0
    /\ checkCalls' = 0
    /\ checkCode' = 0
    /\ mountCalls' = 0
    /\ dirsPrepared' = 0
    /\ notified' = 0
    /\ dirsOk' = 0
    /\ mountPointCalls' = 0
    /\ readRes' = 0
    /\ metaRes' = 0
    /\ hadListener' = FALSE
    /\ notifyArgs' = <<>>
    /\ resolvedFsType' = ""
    /\ formatCalls' = 0
    /\ formatDriver' = ""
    /\ f2fsAvail' = FALSE
    /\ devWritten' = FALSE
    /\ startedUsers' = {}
    /\ pending' = {}
    /\ UNCHANGED <<env, fields, phase, dev>>

\* The hook returns r; step names the failing step.
Return(r, step) ==
    /\ pc' = "idle"
    /\ result' = r
    /\ failStep' = step
    /\ phase' = PhaseAfter(op, r)

\* One dm delete call and its bookkeeping: r is the call's result, e its errno.
DeleteCall(r, e) ==
    /\ ret' = r
    /\ err' = e
    /\ deleteCalls' = deleteCalls + 1
    /\ busyFails' = IF ~r /\ e = EBUSY THEN busyFails + 1 ELSE busyFails
    /\ firstNonBusy' = IF ~r /\ e # EBUSY /\ firstNonBusy = 0
                       THEN deleteCalls + 1 ELSE firstNonBusy
    /\ mappingExists' = IF r THEN FALSE ELSE mappingExists

\* Outcomes of dm.DeleteDeviceIfExists: a missing device is a success; an
\* existing one is removed, or the removal fails with EBUSY or another errno.
DeleteIfExistsOutcomes ==
    IF mappingExists THEN {<<TRUE, "">>, <<FALSE, EBUSY>>, <<FALSE, EOTHER>>}
    ELSE {<<TRUE, "">>}

\* Outcomes of dm.DeleteDevice: an existing device is removed, or the removal
\* fails with EBUSY or another errno; for a missing device the call may report
\* success or fail with an errno other than EBUSY.
DeleteOutcomes ==
    IF mappingExists THEN {<<TRUE, "">>, <<FALSE, EBUSY>>, <<FALSE, EOTHER>>}
    ELSE {<<TRUE, "">>, <<FALSE, EOTHER>>}

\* -------------------------------------------------------------- doCreate

CreateBegin ==
    /\ MayCreate
    /\ Begin("create", "createNode")
    /\ reqFsType' = ""
    /\ UNCHANGED children

\* CreateDeviceNode(mRawDevPath, mRawDevice)
CreateNode ==
    /\ op = "create" /\ pc = "createNode"
    /\ \E rc \in {0, -1} :
         /\ nodeExists' = IF rc = 0 THEN TRUE ELSE nodeExists
         /\ IF CreateNodeFailed(rc)
            THEN /\ Return(EIO, "node")
                 /\ UNCHANGED tries
            ELSE /\ tries' = CreateTries
                 /\ pc' = "deleteLoop"
                 /\ UNCHANGED <<result, failStep, phase>>
    /\ UNCHANGED <<mappingExists, mounted, fields, op, ret, err, retries,
                   dmcnt, crcnt, mtcnt, hist, mdv, xtra>>

\* One pass of while (tries-- > 0) { ret = dm.DeleteDeviceIfExists(getId()); ... }
CreateDeleteLoop ==
    /\ op = "create" /\ pc = "deleteLoop"
    /\ tries' = tries - 1
    /\ IF CreateLoopTest(tries)
       THEN \E o \in DeleteIfExistsOutcomes :
              /\ DeleteCall(o[1], o[2])
              /\ pc' = IF CreateLoopBreak(o[1], o[2]) THEN "afterLoop"
                       ELSE "deleteLoop"
       ELSE /\ pc' = "afterLoop"
            /\ UNCHANGED <<ret, err, dmcnt, mappingExists>>
    /\ UNCHANGED <<nodeExists, mounted, fields, phase, op, result, failStep,
                   retries, crcnt, mtcnt, hist, mdv, xtra>>

\* if (!ret) return -EIO;
CreateAfterLoop ==
    /\ op = "create" /\ pc = "afterLoop"
    /\ IF CreateLoopFailed(ret)
       THEN Return(EIO, "delete")
       ELSE /\ pc' = "setup"
            /\ UNCHANGED <<result, failStep, phase>>
    /\ UNCHANGED <<env, fields, op, loopv, dmcnt, crcnt, mtcnt, hist, mdv, xtra>>

\* setup_ext_volume(getId(), mRawDevPath, mKeyRaw, &mDmDevPath)
CreateSetup ==
    /\ op = "create" /\ pc = "setup"
    /\ setupCalls' = setupCalls + 1
    /\ \E ok \in BOOLEAN :
         /\ mappingExists' = IF ok THEN TRUE ELSE mappingExists
         /\ mDmDevPath' = IF ok THEN DmDevPath ELSE mDmDevPath
         /\ IF SetupFailed(ok)
            THEN /\ Return(EIO, "setup")
                 /\ UNCHANGED retries
            ELSE /\ retries' = RETRY_MOUNT_ATTEMPTS
                 /\ pc' = "open"
                 /\ UNCHANGED <<result, failStep, phase>>
    /\ UNCHANGED <<nodeExists, mounted, mFsType, mFsUuid, mPath, op, tries,
                   ret, err, dmcnt, openCalls, nodeRemoveCalls, mtcnt, hist, mdv, xtra>>

\* One pass of while ((fd = open(mDmDevPath, ...)) < 0) { ... }
CreateOpen ==
    /\ op = "create" /\ pc = "open"
    /\ openCalls' = openCalls + 1
    /\ \E ok \in (IF mappingExists THEN BOOLEAN ELSE {FALSE}) :
         IF ok
         THEN /\ Return(OK, "")
              /\ UNCHANGED retries
         ELSE IF OpenRetry(retries)
              THEN /\ retries' = retries - 1
                   /\ UNCHANGED <<pc, result, failStep, phase>>
              ELSE /\ Return(EIO, "open")
                   /\ UNCHANGED retries
    /\ UNCHANGED <<env, fields, op, tries, ret, err, dmcnt, setupCalls,
                   nodeRemoveCalls, mtcnt, hist, mdv, xtra>>

\* ------------------------------------------------------------- doDestroy

DestroyBegin ==
    /\ MayDestroy
    /\ Begin("destroy", "enter")
    /\ reqFsType' = ""
    /\ UNCHANGED children

\* int tries = 10;
DestroyEnter ==
    /\ op = "destroy" /\ pc = "enter"
    /\ tries' = DestroyTries
    /\ pc' = "deleteLoop"
    /\ UNCHANGED <<env, fields, phase, op, result, failStep, ret, err,
                   retries, dmcnt, crcnt, mtcnt, hist, mdv, xtra>>

\* One pass of while (tries-- > 0) { ret = dm.DeleteDevice(getId()); ... }
DestroyDeleteLoop ==
    /\ op = "destroy" /\ pc = "deleteLoop"
    /\ tries' = tries - 1
    /\ IF DestroyLoopTest(tries)
       THEN \E o \in DeleteOutcomes :
              /\ DeleteCall(o[1], o[2])
              /\ pc' = IF DestroyLoopBreak(o[1], o[2]) THEN "afterLoop"
                       ELSE "deleteLoop"
       ELSE /\ pc' = "afterLoop"
            /\ UNCHANGED <<ret, err, dmcnt, mappingExists>>
    /\ UNCHANGED <<nodeExists, mounted, fields, phase, op, result, failStep,
                   retries, crcnt, mtcnt, hist, mdv, xtra>>

\* if (!ret) return -EIO;
DestroyAfterLoop ==
    /\ op = "destroy" /\ pc = "afterLoop"
    /\ IF DestroyLoopFailed(ret)
       THEN Return(EIO, "delete")
       ELSE /\ pc' = "destroyNode"
            /\ UNCHANGED <<result, failStep, phase>>
    /\ UNCHANGED <<env, fields, op, loopv, dmcnt, crcnt, mtcnt, hist, mdv, xtra>>

\* return DestroyDeviceNode(mRawDevPath);
DestroyNode ==
    /\ op = "destroy" /\ pc = "destroyNode"
    /\ nodeRemoveCalls' = nodeRemoveCalls + 1
    /\ \E rc \in (IF nodeExists THEN {0, -1} ELSE {-1}) :
         /\ nodeExists' = IF rc = 0 THEN FALSE ELSE nodeExists
         /\ Return(DestroyStatus(rc), IF DestroyStatus(rc) = OK THEN "" ELSE "node")
    /\ UNCHANGED <<mappingExists, mounted, fields, op, loopv, dmcnt,
                   setupCalls, openCalls, mtcnt, hist, mdv, xtra>>

\* --------------------------------------------------------------- doMount

MountBegin ==
    /\ MayMount
    /\ Begin("mount", "readMetadata")
    /\ reqFsType' = ""
    /\ UNCHANGED children

\* readMetadata(), line 62: ReadMetadata(mDmDevPath, &mFsType, &mFsUuid,
\* &mFsLabel); the label is carried like the uuid and is left out.
MountReadMetadata ==
    /\ op = "mount" /\ pc = "readMetadata"
    /\ \E res \in {0, -1}, t \in FsTypes \cup {""}, u \in FsUuids :
         /\ mFsType' = t
         /\ mFsUuid' = u
         /\ readRes' = res
    /\ pc' = "notify"
    /\ UNCHANGED <<env, mDmDevPath, mPath, phase, op, result, failStep, loopv,
                   dmcnt, crcnt, mtcnt, hist, dirsOk, mountPointCalls, metaRes,
                   hadListener, notifyArgs, xtra>>

\* readMetadata(), lines 64-67: the listener, if any, is told; return res
MountNotify ==
    /\ op = "mount" /\ pc = "notify"
    /\ \E listener \in BOOLEAN :
         /\ hadListener' = listener
         /\ IF Notifies(listener, readRes)
            THEN /\ notified' = notified + 1
                 /\ notifyArgs' = <<Identity, mFsType, mFsUuid>>
            ELSE UNCHANGED <<notified, notifyArgs>>
    /\ metaRes' = ReadMetadataResult(readRes)
    /\ pc' = "afterMetadata"
    /\ UNCHANGED <<env, fields, phase, op, result, failStep, loopv, dmcnt,
                   crcnt, checkCalls, checkCode, mountCalls, dirsPrepared, hist,
                   dirsOk, mountPointCalls, readRes, xtra>>

\* if (readMetadata()) return -EIO; mPath = ...; setPath(mPath);
MountAfterMetadata ==
    /\ op = "mount" /\ pc = "afterMetadata"
    /\ IF metaRes # 0
       THEN /\ Return(EIO, "readMetadata")
            /\ UNCHANGED mPath
       ELSE /\ mPath' = MountPathFor(mFsUuid)
            /\ pc' = "prepareMountPoint"
            /\ UNCHANGED <<result, failStep, phase>>
    /\ UNCHANGED <<env, mDmDevPath, mFsType, mFsUuid, op, loopv, dmcnt, crcnt,
                   mtcnt, hist, mdv, xtra>>

\* PrepareDir(mPath, 0700, AID_ROOT, AID_ROOT), then the dispatch on mFsType
MountPrepareMountPoint ==
    /\ op = "mount" /\ pc = "prepareMountPoint"
    /\ mountPointCalls' = mountPointCalls + 1
    /\ \E ok \in BOOLEAN :
         IF ~ok
         THEN Return(EIO, "prepareMountPoint")
         ELSE IF Supported(mFsType)
              THEN /\ pc' = "check"
                   /\ UNCHANGED <<result, failStep, phase>>
              ELSE Return(EIO, "unsupported")
    /\ UNCHANGED <<env, fields, op, loopv, dmcnt, crcnt, mtcnt, hist, dirsOk,
                   readRes, metaRes, hadListener, notifyArgs, xtra>>

\* ext4::Check(mDmDevPath, mPath) / f2fs::Check(mDmDevPath)
MountCheck ==
    /\ op = "mount" /\ pc = "check"
    /\ checkCalls' = checkCalls + 1
    /\ \E res \in CheckCodes :
         /\ checkCode' = res
         /\ IF CheckPassed(mFsType, res)
            THEN /\ pc' = "mount"
                 /\ UNCHANGED <<result, failStep, phase>>
            ELSE Return(EIO, "check")
    /\ UNCHANGED <<env, fields, op, loopv, dmcnt, crcnt, mountCalls,
                   dirsPrepared, notified, hist, mdv, xtra>>

\* ext4::Mount(mDmDevPath, mPath, false, false, true) / f2fs::Mount(...)
MountMount ==
    /\ op = "mount" /\ pc = "mount"
    /\ mountCalls' = mountCalls + 1
    /\ \E ok \in BOOLEAN :
         IF ok
         THEN /\ mounted' = TRUE
              /\ pc' = "prepareDirs"
              /\ UNCHANGED <<result, failStep, phase>>
         ELSE /\ Return(EIO, "mount")
              /\ UNCHANGED mounted
    /\ UNCHANGED <<nodeExists, mappingExists, fields, op, loopv, dmcnt, crcnt,
                   checkCalls, checkCode, dirsPrepared, notified, hist, mdv, xtra>>

\* One operand of PrepareDir(mPath + "/app", ...) || ... || PrepareDir(.../local/tmp)
MountPrepareDirs ==
    /\ op = "mount" /\ pc = "prepareDirs"
    /\ dirsPrepared' = dirsPrepared + 1
    /\ \E rc \in {0, -1} :
         /\ dirsOk' = IF rc = 0 THEN dirsOk + 1 ELSE dirsOk
         /\ IF PrepareFailed(rc)
            THEN Return(EIO, "prepareDirs")
            ELSE IF dirsPrepared + 1 = Len(SubDirs)
                 THEN Return(OK, "")
                 ELSE UNCHANGED <<pc, result, failStep, phase>>
    /\ UNCHANGED <<env, fields, op, loopv, dmcnt, crcnt, checkCalls,
                   checkCode, mountCalls, notified, hist, mountPointCalls,
                   readRes, metaRes, hadListener, notifyArgs, xtra>>

\* ------------------------------------------------------------- doUnmount

UnmountBegin ==
    /\ MayUnmount
    /\ Begin("unmount", "forceUnmount")
    /\ reqFsType' = ""
    /\ children' = <<>>

\* ForceUnmount(mPath); its result is not looked at
UnmountForce ==
    /\ op = "unmount" /\ pc = "forceUnmount"
    /\ \E ok \in BOOLEAN : mounted' = IF ok THEN FALSE ELSE mounted
    /\ pc' = "rmdir"
    /\ UNCHANGED <<nodeExists, mappingExists, fields, phase, op, result,
                   failStep, loopv, dmcnt, crcnt, mtcnt, hist, mdv, xtra>>

\* rmdir(mPath): a failure is logged; return OK
UnmountRmdir ==
    /\ op = "unmount" /\ pc = "rmdir"
    /\ \E rc \in {0, -1} : Return(UnmountStatus(rc), IF rc = 0 THEN "" ELSE "rmdir")
    /\ UNCHANGED <<env, fields, op, loopv, dmcnt, crcnt, mtcnt, hist, mdv, xtra>>

\* -------------------------------------------------------------- doFormat

FormatBegin ==
    /\ MayFormat
    /\ Begin("format", "resolve")
    /\ \E t \in FormatRequests : reqFsType' = t
    /\ UNCHANGED children

\* lines 238-251: resolvedFsType, with f2fs::IsSupported() as the driver tells
FormatResolve ==
    /\ op = "format" /\ pc = "resolve"
    /\ \E avail \in BOOLEAN :
         /\ f2fsAvail' = avail
         /\ resolvedFsType' = Resolve(reqFsType, rawMajor, avail)
    /\ pc' = "format"
    /\ UNCHANGED <<env, fields, phase, op, result, failStep, loopv, dmcnt,
                   crcnt, mtcnt, hist, mdv, dev, reqFsType, formatCalls,
                   formatDriver, devWritten, pmv, children>>

\* lines 253-269: the Format of the resolved driver, or -EINVAL
FormatRun ==
    /\ op = "format" /\ pc = "format"
    /\ IF resolvedFsType = "ext4" \/ resolvedFsType = "f2fs"
       THEN /\ formatCalls' = formatCalls + 1
            /\ formatDriver' = resolvedFsType
            /\ devWritten' = TRUE
            /\ \E rc \in {0, -1} :
                 Return(FormatStatus(rc), IF rc # 0 THEN "format" ELSE "")
       ELSE /\ Return(UnsupportedStatus, "unsupported")
            /\ UNCHANGED <<formatCalls, formatDriver, devWritten>>
    /\ UNCHANGED <<env, fields, op, loopv, dmcnt, crcnt, mtcnt, hist, mdv, dev,
                   reqFsType, resolvedFsType, f2fsAvail, pmv, children>>

\* ----------------------------------------------------------- doPostMount

PostMountBegin ==
    /\ MayPostMount
    /\ Begin("postMount", "getUsers")
    /\ reqFsType' = ""
    /\ UNCHANGED children

\* vol_manager->getStartedUsers()
PostMountUsers ==
    /\ op = "postMount" /\ pc = "getUsers"
    /\ \E S \in SUBSET Users :
         /\ startedUsers' = S
         /\ pending' = UsersToStack(S)
    /\ pc' = "loop"
    /\ UNCHANGED <<env, fields, phase, op, result, failStep, loopv, dmcnt,
                   crcnt, mtcnt, hist, mdv, dev, fmt, children>>

\* the user the range-for is at: getStartedUsers() is an ordered set
NextUser == CHOOSE u \in pending : \A v \in pending : u <= v

\* new EmulatedVolume(mediaPath, mRawDevice, mFsUuid, user);
\* vol->setMountUserId(user); addVolume(vol);
PostMountAdd ==
    /\ op = "postMount" /\ pc = "loop" /\ pending # {}
    /\ children' = Append(children, [user |-> NextUser,
                                     path |-> MediaPath(mPath),
                                     created |-> FALSE])
    /\ pc' = "create"
    /\ UNCHANGED <<env, fields, phase, op, result, failStep, loopv, dmcnt,
                   crcnt, mtcnt, hist, mdv, dev, fmt, pmv>>

\* vol->create();
PostMountCreate ==
    /\ op = "postMount" /\ pc = "create"
    /\ children' = [children EXCEPT ![Len(children)].created = TRUE]
    /\ pending' = pending \ {NextUser}
    /\ pc' = "loop"
    /\ UNCHANGED <<env, fields, phase, op, result, failStep, loopv, dmcnt,
                   crcnt, mtcnt, hist, mdv, dev, fmt, startedUsers>>

\* the loop is over; doPostMount returns nothing
PostMountEnd ==
    /\ op = "postMount" /\ pc = "loop" /\ pending = {}
    /\ Return("void", "")
    /\ UNCHANGED <<env, fields, op, loopv, dmcnt, crcnt, mtcnt, hist, mdv,
                   xtra>>

Next ==
    \/ CreateBegin
    \/ CreateNode
    \/ CreateDeleteLoop
    \/ CreateAfterLoop
    \/ CreateSetup
    \/ CreateOpen
    \/ DestroyBegin
    \/ DestroyEnter
    \/ DestroyDeleteLoop
    \/ DestroyAfterLoop
    \/ DestroyNode
    \/ MountBegin
    \/ MountReadMetadata
    \/ MountNotify
    \/ MountAfterMetadata
    \/ MountPrepareMountPoint
    \/ MountCheck
    \/ MountMount
    \/ MountPrepareDirs
    \/ UnmountBegin
    \/ UnmountForce
    \/ UnmountRmdir
    \/ FormatBegin
    \/ FormatResolve
    \/ FormatRun
    \/ PostMountBegin
    \/ PostMountUsers
    \/ PostMountAdd
    \/ PostMountCreate
    \/ PostMountEnd

Spec == Init /\ [][Next]_vars

\* ------------------------------------------------------------ properties

Returned(o) == op = o /\ pc = "idle"

\* the hook that just returned was entered right after a doCreate that
\* returned OK
AfterCreateOk == prevOp = "create" /\ prevFail = ""

\* C1, as stated: after a doCreate that returned success, the doDestroy
\* invoked next always ends with neither the raw device node nor the block
\* mapping in existence, whatever the collaborators did.
C1_AsStated ==
    (Returned("destroy") /\ AfterCreateOk)
        => (~nodeExists /\ ~mappingExists)

\* C1, amended: after a doCreate that returned success, a doDestroy invoked
\* next that itself returns success ends with neither the raw device node nor
\* the block mapping in existence.
C1_RoundTrip ==
    (Returned("destroy") /\ AfterCreateOk /\ result = OK)
        => (~nodeExists /\ ~mappingExists)

C1_Witness ==
    /\ Returned("destroy") /\ AfterCreateOk /\ result = OK
    /\ deleteCalls >= 1 /\ nodeRemoveCalls = 1

\* C2, as stated: when doCreate returns, either it succeeded and node and
\* mapping both exist, or it failed and no node it created is left behind.
C2_AsStated ==
    Returned("create") =>
        \/ result = OK /\ nodeExists /\ mappingExists
        \/ result # OK /\ (nodeExists => nodeAtStart)

\* C2, amended: when doCreate returns success, node and mapping both exist;
\* when it fails in the node creation it leaves no node it created; when it
\* fails in a later step (mapping delete, encryption setup, open poll) the
\* node it created is left in place.
C2_CreateOutcome ==
    Returned("create") =>
        /\ result = OK => (nodeExists /\ mappingExists /\ mDmDevPath # "")
        /\ (result # OK /\ failStep = "node") => (nodeExists = nodeAtStart)
        /\ (result # OK /\ failStep # "node") => nodeExists

C2_Witness ==
    /\ Returned("create") /\ result # OK /\ failStep = "setup"
    /\ nodeExists /\ ~nodeAtStart

\* C3: every doDestroy attempts both removals, the mapping's and the raw
\* device node's, also when the mapping removal fails.
C3_BothRemovalsAttempted ==
    Returned("destroy") => (deleteCalls >= 1 /\ nodeRemoveCalls >= 1)

\* C4: a doCreate that fails at encryption setup leaves the raw device node
\* in place, and the doDestroy that follows removes that node.
C4_FailedCreateCleanedUp ==
    /\ (Returned("create") /\ failStep = "setup") => nodeExists
    /\ (Returned("destroy") /\ prevOp = "create" /\ prevFail = "setup")
           => ~nodeExists

\* C5: when the delete call fails busy on attempts 1 to 9, a tenth attempt is
\* made, and when that one succeeds the loop ends in success: doCreate goes on
\* to encryption setup, doDestroy to the node removal, and neither fails at
\* the delete step.
C5_TenthAttemptCounts ==
    /\ (op \in {"create", "destroy"} /\ deleteCalls = 9 /\ busyFails = 9)
           => (pc = "deleteLoop" /\ tries = 1)
    /\ (op = "create" /\ deleteCalls = 10 /\ busyFails = 9 /\ ret)
           => /\ pc \in {"afterLoop", "setup", "open", "idle"}
              /\ failStep # "delete"
              /\ pc \in {"open", "idle"} => setupCalls = 1
    /\ (op = "destroy" /\ deleteCalls = 10 /\ busyFails = 9 /\ ret)
           => /\ pc \in {"afterLoop", "destroyNode", "idle"}
              /\ failStep # "delete"
              /\ pc = "idle" => nodeRemoveCalls = 1

C5_Witness ==
    /\ op = "create" /\ deleteCalls = 10 /\ busyFails = 9 /\ ret
    /\ pc = "open" /\ setupCalls = 1

\* C6: in doCreate a delete call that fails with a reason other than busy is
\* the last one: failing so at attempt k, the loop ends with exactly k delete
\* calls (k - 1 of them busy), doCreate returns -EIO, and neither encryption
\* setup nor the open poll is called.
C6_NonBusyEndsLoop ==
    (op = "create" /\ firstNonBusy # 0) =>
        /\ deleteCalls = firstNonBusy
        /\ busyFails = firstNonBusy - 1
        /\ setupCalls = 0 /\ openCalls = 0
        /\ pc \in {"afterLoop", "idle"}
        /\ pc = "idle" => (result = EIO /\ failStep = "delete")

C6_Witness ==
    /\ Returned("create") /\ firstNonBusy = 1 /\ deleteCalls = 1
    /\ result = EIO

\* C7: in doDestroy the raw device node removal is called only after the
\* mapping removal succeeded, never before it and never without it.
C7_NodeAfterMapping ==
    /\ (op = "destroy" /\ (pc = "destroyNode" \/ nodeRemoveCalls > 0))
           => (ret /\ deleteCalls >= 1 /\ ~mappingExists)
    /\ (op = "destroy" /\ pc \in {"enter", "deleteLoop", "afterLoop"})
           => nodeRemoveCalls = 0

C7_Witness ==
    Returned("destroy") /\ nodeRemoveCalls = 1 /\ ret /\ busyFails >= 1

\* doMount got as far as the filesystem check of a volume of type t
Checked(t) == Returned("mount") /\ mFsType = t /\ checkCalls = 1

\* C8, as stated: on an ext4 volume doMount calls the mount when the check
\* returns the clean code 0, and for every other code it fails before the
\* mount is called.
C8_AsStated ==
    Checked("ext4") => (mountCalls = 1 <=> checkCode = 0)

\* C8, amended: on an ext4 volume doMount calls the mount when the check
\* returns 0 (clean) or 1 (clean, was repaired), and for every other code it
\* fails with -EIO before the mount is called.
C8_Ext4CheckGatesMount ==
    /\ Checked("ext4") => (mountCalls = 1 <=> checkCode \in {0, 1})
    /\ (Checked("ext4") /\ checkCode \notin {0, 1})
           => (result = EIO /\ failStep = "check")
    /\ (op = "mount" /\ mFsType = "ext4" /\ (pc = "mount" \/ mountCalls > 0))
           => (checkCalls = 1 /\ checkCode \in {0, 1})

C8_Witness ==
    Checked("ext4") /\ checkCode = 1 /\ mountCalls = 1

\* the pairs of filesystem type and check code doMount accepts
Accepted(t, c) == (t = "ext4" /\ c \in {0, 1}) \/ (t = "f2fs" /\ c = 0)

\* C9: doMount calls a mount driver exactly when the check ran and the pair
\* (fsType, check code) is accepted: ext4 with 0 or 1, f2fs with 0; for any
\* other fsType it returns -EIO having called neither a check nor a mount.
C9_MountIffAccepted ==
    /\ Returned("mount") =>
           /\ mountCalls = 1 <=> (checkCalls = 1 /\ Accepted(mFsType, checkCode))
           /\ mountCalls <= 1 /\ checkCalls <= 1
           /\ mFsType \notin {"ext4", "f2fs"}
                  => (result = EIO /\ checkCalls = 0 /\ mountCalls = 0)
    /\ (op = "mount" /\ mountCalls > 0) => Accepted(mFsType, checkCode)

C9_Witness ==
    Checked("f2fs") /\ checkCode = 1 /\ mountCalls = 0 /\ result = EIO

\* C10, as stated: between lifecycle operations mPath is non-empty exactly
\* when the volume is mounted.
C10_AsStated ==
    pc = "idle" => (mPath # "" <=> mounted)

\* C10, amended: mPath is non-empty whenever the volume is mounted; it is set
\* as soon as a doMount has read the metadata and is reset by nothing, so it
\* stays non-empty after a doMount that failed later and after doUnmount.
C10_MountedHasPath ==
    /\ mounted => mPath # ""
    /\ (Returned("mount") /\ failStep # "readMetadata")
           => mPath = "/mnt/expand/" \o mFsUuid
    /\ Returned("unmount") => mPath # ""

C10_Witness ==
    Returned("unmount") /\ ~mounted /\ mPath # ""

\* C11, as stated: between lifecycle operations mDmDevPath is non-empty
\* exactly when a block mapping exists for the identity.
C11_AsStated ==
    pc = "idle" => (mDmDevPath # "" <=> mappingExists)

\* C11, amended: once encryption setup has succeeded in doCreate, and when
\* doCreate returns success, mDmDevPath is non-empty and the mapping exists;
\* mDmDevPath is empty as long as no doCreate has been entered, whether or not
\* a stale mapping exists, and doDestroy does not reset it: after a successful
\* doCreate and a successful doDestroy it is non-empty and no mapping exists.
C11_PathSetBySetup ==
    /\ (op = "create" /\ (pc = "open" \/ openCalls > 0))
           => (mDmDevPath # "" /\ mappingExists)
    /\ (Returned("create") /\ result = OK)
           => (mDmDevPath # "" /\ mappingExists)
    /\ op = "none" => mDmDevPath = ""
    /\ (Returned("destroy") /\ AfterCreateOk /\ result = OK)
           => (mDmDevPath # "" /\ ~mappingExists)

C11_Witness ==
    /\ Returned("destroy") /\ AfterCreateOk /\ result = OK
    /\ mDmDevPath # "" /\ ~mappingExists

\* C14: doUnmount returns OK in every execution, whether or not the forced
\* unmount took the filesystem away and whether or not rmdir succeeded.
C14_UnmountAlwaysOk ==
    Returned("unmount") => result = OK

C14_Witness ==
    Returned("unmount") /\ failStep = "rmdir" /\ mounted /\ result = OK

\* C16, as stated: the open poll of doCreate makes at most 10 open attempts,
\* and when all fail doCreate returns -EIO after the 10th failed attempt.
C16_AsStated ==
    op = "create" =>
        /\ openCalls <= 10
        /\ (pc = "idle" /\ failStep = "open") => openCalls = 10

\* C16, amended: the open poll of doCreate makes at most 11 open attempts,
\* the first one and 10 retries each after a delay; when every attempt fails
\* doCreate returns -EIO after the 11th failed attempt, and when an attempt
\* succeeds doCreate returns success without a further attempt.
C16_OpenPollBound ==
    op = "create" =>
        /\ openCalls <= 11
        /\ (pc = "idle" /\ failStep = "open") => (openCalls = 11 /\ result = EIO)
        /\ (pc = "idle" /\ result = OK)
               => (openCalls >= 1 /\ retries = 10 - (openCalls - 1))
        /\ pc = "open" => retries = 10 - openCalls

C16_Witness ==
    Returned("create") /\ failStep = "open" /\ openCalls = 11 /\ result = EIO

\* C19: the busy-retry loop of doCreate and of doDestroy makes at most 10
\* delete calls; it makes another call only after a call that failed busy, and
\* when all 10 fail busy the hook returns -EIO.
C19_DeleteLoopBounded ==
    op \in {"create", "destroy"} =>
        /\ deleteCalls <= 10
        /\ deleteCalls >= 1 => busyFails >= deleteCalls - 1
        /\ busyFails = 10 =>
               /\ deleteCalls = 10
               /\ pc \in {"deleteLoop", "afterLoop", "idle"}
               /\ pc = "deleteLoop" => tries = 0
               /\ pc = "idle" => (result = EIO /\ failStep = "delete")

C19_Witness ==
    /\ Returned("destroy") /\ busyFails = 10 /\ deleteCalls = 10
    /\ result = EIO /\ nodeRemoveCalls = 0

\* C20: the steps of doCreate gate each other: a mapping delete is attempted
\* only after the node creation succeeded, encryption setup is called only
\* after a delete call succeeded, so that no mapping of the identity exists
\* when it is called, and the open poll runs only after encryption setup
\* succeeded.
C20_CreateStepsGated ==
    op = "create" =>
        /\ (pc = "deleteLoop" \/ deleteCalls > 0) => nodeExists
        /\ (pc = "setup" \/ setupCalls > 0) => (ret /\ deleteCalls >= 1)
        /\ pc = "setup" => ~mappingExists
        /\ (pc = "open" \/ openCalls > 0)
               => (setupCalls = 1 /\ mappingExists /\ mDmDevPath # "")
        /\ pc = "createNode" => (deleteCalls = 0 /\ setupCalls = 0 /\ openCalls = 0)
        /\ pc \in {"deleteLoop", "afterLoop"} => (setupCalls = 0 /\ openCalls = 0)

C20_Witness ==
    /\ Returned("create") /\ result = OK /\ ~nodeAtStart /\ nodeExists
    /\ busyFails >= 1 /\ setupCalls = 1 /\ openCalls >= 2

\* C17: readMetadata tells the registered listener exactly once per call,
\* before it returns and whether the metadata read succeeded or failed,
\* passing the identity and the fsType and fsUuid just read; it returns what
\* the metadata read returned; and when it fails doMount returns -EIO before
\* a mount point is prepared.
C17_NotifyThenReturn ==
    op = "mount" =>
        /\ pc \in {"readMetadata", "notify"} => notified = 0
        /\ pc \notin {"readMetadata", "notify"} =>
               /\ notified = (IF hadListener THEN 1 ELSE 0)
               /\ hadListener =>
                      notifyArgs = <<<<"private", rawMajor>>, mFsType, mFsUuid>>
               /\ metaRes = readRes
        /\ (pc = "idle" /\ readRes # 0) =>
               /\ result = EIO /\ failStep = "readMetadata"
               /\ mountPointCalls = 0 /\ checkCalls = 0 /\ mountCalls = 0

C17_Witness ==
    /\ Returned("mount") /\ readRes # 0 /\ hadListener /\ notified = 1
    /\ result = EIO /\ mountPointCalls = 0

\* C18: when doMount returns success all nine subdirectories have been
\* prepared; when the preparation of one fails doMount returns -EIO and
\* prepares none of the later ones.
C18_NineDirsOrFail ==
    op = "mount" =>
        /\ dirsPrepared <= 9
        /\ dirsPrepared - dirsOk \in {0, 1}
        /\ dirsPrepared > dirsOk
               => (pc = "idle" /\ result = EIO /\ failStep = "prepareDirs")
        /\ (pc = "idle" /\ result = OK) => (dirsOk = 9 /\ Len(SubDirs) = 9)
        /\ pc \in {"readMetadata", "notify", "afterMetadata",
                   "prepareMountPoint", "check", "mount"} => dirsPrepared = 0

C18_Witness ==
    /\ Returned("mount") /\ failStep = "prepareDirs" /\ result = EIO
    /\ dirsPrepared = 4 /\ dirsOk = 3

C13_UnsupportedIsEinval ==
    Returned("format") =>
        /\ reqFsType \notin {"ext4", "f2fs", "auto"}
               => /\ result = EINVAL
                  /\ formatCalls = 0 /\ formatDriver = "" /\ ~devWritten
        /\ result = EINVAL => reqFsType \notin {"ext4", "f2fs", "auto"}
        /\ failStep = "format" => (result = EIO /\ formatCalls = 1)
        /\ result = OK => (formatCalls = 1 /\ devWritten)

C13_Witness ==
    /\ Returned("format") /\ reqFsType = "zzz" /\ result = EINVAL
    /\ formatCalls = 0 /\ ~devWritten

ChildUsers == {children[i].user : i \in 1 .. Len(children)}

\* C15: doPostMount adds exactly one child volume for each user that
\* getStartedUsers() returned, each tagged with its user, rooted at
\* mPath/media, and created right after it was added.
C15_OneChildPerUser ==
    /\ Returned("postMount") =>
           /\ Len(children) = Cardinality(startedUsers)
           /\ ChildUsers = startedUsers
           /\ \A i \in 1 .. Len(children) : children[i].created
    /\ op = "postMount" =>
           /\ Cardinality(ChildUsers) = Len(children)
           /\ ChildUsers \subseteq startedUsers
           /\ \A i \in 1 .. Len(children) :
                  /\ children[i].path = mPath \o "/media"
                  /\ children[i].created \/ (i = Len(children) /\ pc = "create")

C15_Witness ==
    /\ Returned("postMount") /\ startedUsers = {0, 1} /\ Len(children) = 2
    /\ children[1].user = 0 /\ children[2].user = 1

====
